---------------------------- MODULE Spec2Model ----------------------------
(***************************************************************************)
(* A model of cordova/lib/builders/GradleBuilder.js: the regeneration of   *)
(* settings.gradle and of the two marker regions of build.gradle from      *)
(* project.properties (prepBuildFiles), and the life cycle of the          *)
(* <buildType>-signing.properties files (prepEnv, clean).                  *)
(*                                                                         *)
(* Text.  A JavaScript string is modelled as a sequence of lexemes.  A     *)
(* lexeme is a single character ("a", "$", ":", "\n", ...) or one of the   *)
(* literals the code searches for or emits as a whole (a marker comment, a *)
(* key prefix of project.properties, a fixed fragment of generated text).  *)
(* The string a sequence stands for is the concatenation of its lexemes.   *)
(* The input texts of the model contain each searched literal only as a    *)
(* whole lexeme, so a search over lexemes finds exactly the occurrences a  *)
(* search over characters finds.                                           *)
(***************************************************************************)
EXTENDS Integers, Sequences, FiniteSets, TLC

VARIABLES
    projectProperties,  \* text of <root>/project.properties
    androidManifest,    \* text of <root>/AndroidManifest.xml
    buildGradle,        \* text of <root>/build.gradle
    settingsGradle,     \* text of <root>/settings.gradle, or Absent
    subProjectGradle,   \* sub-project path -> text of its build.gradle, Absent or NoDir
    pluginBuildGradle,  \* text of <root>/cordova/lib/plugin-build.gradle, or Absent
    signingProperties,  \* build type -> text of <type>-signing.properties, or Absent
    last,               \* what the last call did (its locals and its outcome)
    original,           \* build.gradle as it was before the first run since the last edit
    runs                \* number of prepBuildFiles runs since the last edit

vars == <<projectProperties, androidManifest, buildGradle, settingsGradle,
          subProjectGradle, pluginBuildGradle, signingProperties, last, original,
          runs>>

\* a missing file, and a file in a missing directory: no text holds these lexemes
Absent == <<"<absent>">>
NoDir == <<"<nodir>">>

(***************************************************************************)
(* Bounds of the model.                                                    *)
(***************************************************************************)
MaxLines == 3      \* lines of a generated project.properties
MaxMarkers == 4    \* marker comments of a generated build.gradle
MaxPathLen == 4    \* lexemes of a generated sub-project path
MaxRawLen == 3     \* lexemes of a generated system-library value
MaxRuns == 2       \* runs of prepBuildFiles between two edits

(***************************************************************************)
(* String helpers (String.prototype methods used by the code).             *)
(***************************************************************************)
\* s.substring(from), 0-based
Substring(s, from) == SubSeq(s, from + 1, Len(s))

\* s.substring(from, to), 0-based, to exclusive
Slice(s, from, to) == SubSeq(s, from + 1, to)

\* does pat occur in s at 0-based offset k
OccursAt(s, pat, k) ==
    /\ k >= 0
    /\ k + Len(pat) <= Len(s)
    /\ SubSeq(s, k + 1, k + Len(pat)) = pat

\* s.indexOf(pat): 0-based offset of the first occurrence, -1 when there is none
IndexOf(s, pat) ==
    LET hits == {k \in 0..Len(s) : OccursAt(s, pat, k)}
    IN  IF hits = {} THEN -1 ELSE CHOOSE k \in hits : \A j \in hits : k <= j

\* s.lastIndexOf(pat)
LastIndexOf(s, pat) ==
    LET hits == {k \in 0..Len(s) : OccursAt(s, pat, k)}
    IN  IF hits = {} THEN -1 ELSE CHOOSE k \in hits : \A j \in hits : k >= j

\* array.join('') of an array of strings
RECURSIVE Join(_)
Join(strs) == IF strs = <<>> THEN <<>> ELSE Head(strs) \o Join(Tail(strs))

\* s.split("\n")
RECURSIVE SplitLines(_)
SplitLines(s) ==
    LET k == IndexOf(s, <<"\n">>)
    IN  IF k = -1 THEN <<s>>
        ELSE <<Slice(s, 0, k)>> \o SplitLines(Substring(s, k + 1))

Digits == {"0", "1", "2", "3", "4", "5", "6", "7", "8", "9"}

DigitValue(d) ==
    CASE d = "0" -> 0 [] d = "1" -> 1 [] d = "2" -> 2 [] d = "3" -> 3
      [] d = "4" -> 4 [] d = "5" -> 5 [] d = "6" -> 6 [] d = "7" -> 7
      [] d = "8" -> 8 [] d = "9" -> 9

RECURSIVE ToNumber(_)
ToNumber(s) ==
    IF s = <<>> THEN 0
    ELSE 10 * ToNumber(SubSeq(s, 1, Len(s) - 1)) + DigitValue(s[Len(s)])

(***************************************************************************)
(* readProjectProperties and its helper findAllUniq.                       *)
(***************************************************************************)
LIBS_KEY == "android.library.reference."
INCLUDES_KEY == "cordova.gradle.include."
SYSTEM_LIBS_KEY == "cordova.system.library."

RECURSIVE SkipSpaces(_)
SkipSpaces(s) ==
    IF s # <<>> /\ Head(s) = " " THEN SkipSpaces(Tail(s)) ELSE s

RECURSIVE SkipDigits(_)
SkipDigits(s) ==
    IF s # <<>> /\ Head(s) \in Digits THEN SkipDigits(Tail(s)) ELSE s

\* One line against /^\s*<key>\d+=(.*)(?:\s|$)/m: <<m[1]>> when the line
\* matches, <<>> when it does not.  The group (.*) is greedy and "." matches
\* everything but a line terminator, so m[1] is the whole rest of the line.
MatchLine(line, key) ==
    LET t == SkipSpaces(line)
    IN  IF t = <<>> \/ Head(t) # key THEN <<>>
        ELSE LET u == Tail(t)
                 v == SkipDigits(u)
             IN  IF Len(v) = Len(u) \/ v = <<>> \/ Head(v) # "="
                 THEN <<>>
                 ELSE <<Tail(v)>>

\* The values m[1] of the successive r.exec(data), in the order of the loop.
RECURSIVE MatchesOfLines(_, _)
MatchesOfLines(lines, key) ==
    IF lines = <<>> THEN <<>>
    ELSE MatchLine(Head(lines), key) \o MatchesOfLines(Tail(lines), key)

Matches(data, key) == MatchesOfLines(SplitLines(data), key)

\* A property key that is an array index: "0", or digits without a leading zero.
IsArrayIndex(k) ==
    /\ k # <<>>
    /\ \A i \in 1..Len(k) : k[i] \in Digits
    /\ (Len(k) > 1 => k[1] # "0")

RECURSIVE Ascending(_)
Ascending(S) ==
    IF S = {} THEN <<>>
    ELSE LET m == CHOOSE x \in S : \A y \in S : ToNumber(x) <= ToNumber(y)
         IN  <<m>> \o Ascending(S \ {m})

\* the elements of seq, each once, in the order of their first occurrence
RECURSIVE FirstSeen(_)
FirstSeen(seq) ==
    IF seq = <<>> THEN <<>>
    ELSE LET front == FirstSeen(SubSeq(seq, 1, Len(seq) - 1))
             x == seq[Len(seq)]
         IN  IF \E i \in 1..Len(front) : front[i] = x THEN front
             ELSE Append(front, x)

\* s = {}; s[k] = 1 for each k of keys in turn; Object.keys(s).  An assignment
\* to "__proto__" sets no own property, and Object.keys lists the array-index
\* keys first, in ascending numeric order, then the others in insertion order.
ObjectKeys(keys) ==
    LET own == SelectSeq(FirstSeen(keys), LAMBDA k : k # <<"__proto__">>)
        idx == {own[i] : i \in {j \in 1..Len(own) : IsArrayIndex(own[j])}}
    IN  Ascending(idx) \o SelectSeq(own, LAMBDA k : ~IsArrayIndex(k))

FindAllUniq(data, key) == ObjectKeys(Matches(data, key))

ReadProjectProperties(data) ==
    [libs |-> FindAllUniq(data, LIBS_KEY),
     gradleIncludes |-> FindAllUniq(data, INCLUDES_KEY),
     systemLibs |-> FindAllUniq(data, SYSTEM_LIBS_KEY)]

(***************************************************************************)
(* extractRealProjectNameFromManifest.                                     *)
(***************************************************************************)
\* Where /package\s*=\s*"(.*?)"/ matches at offset k of s: <<m[1]>>, or <<>>.
PackageAt(s, k) ==
    IF ~OccursAt(s, <<"package">>, k) THEN <<>>
    ELSE LET t == SkipSpaces(Substring(s, k + 1))
         IN  IF t = <<>> \/ Head(t) # "=" THEN <<>>
             ELSE LET u == SkipSpaces(Tail(t))
                  IN  IF u = <<>> \/ Head(u) # "\"" THEN <<>>
                      ELSE LET v == Tail(u)
                               q == IndexOf(v, <<"\"">>)
                               n == IndexOf(v, <<"\n">>)
                           IN  IF q = -1 \/ (n # -1 /\ n < q) THEN <<>>
                               ELSE <<Slice(v, 0, q)>>

\* /<manifest[\s\S]*?package\s*=\s*"(.*?)"/i.exec(manifestData): <<m[1]>>, or
\* <<>> for null.  The lazy [\s\S]*? stops at the first offset after
\* "<manifest" from which the rest of the pattern matches.
ManifestPackage(manifestData) ==
    LET i == IndexOf(manifestData, <<"<manifest">>)
        ks == {k \in 0..Len(manifestData) :
                 i # -1 /\ k > i /\ PackageAt(manifestData, k) # <<>>}
    IN  IF ks = {} THEN <<>>
        ELSE PackageAt(manifestData, CHOOSE k \in ks : \A j \in ks : k <= j)

\* [ok |-> FALSE] for the thrown CordovaError, else the project's name
ExtractRealProjectNameFromManifest(manifestData) ==
    LET m == ManifestPackage(manifestData)
    IN  IF m = <<>> THEN [ok |-> FALSE, name |-> <<>>]
        ELSE LET packageName == m[1]
                 lastDotIndex == LastIndexOf(packageName, <<".">>)
             IN  [ok |-> TRUE, name |-> Substring(packageName, lastDotIndex + 1)]

(***************************************************************************)
(* Module names and settings.gradle.                                       *)
(***************************************************************************)
\* p.replace(/[/\\]/g, ':')
RealDir(p) == [i \in 1..Len(p) |-> IF p[i] \in {"/", "\\"} THEN ":" ELSE p[i]]

\* s.replace(pat, '') with a string pattern: the first occurrence is removed
RemoveFirst(s, pat) ==
    LET k == IndexOf(s, pat)
    IN  IF k = -1 THEN s ELSE Slice(s, 0, k) \o Substring(s, k + Len(pat))

\* realDir.replace(name + '-', '')
LibName(p, name) == RemoveFirst(RealDir(p), name \o <<"-">>)

\* a test that misses the prefix at offset 0
HasProjectDirPastStart(p, name) == IndexOf(RealDir(p), name \o <<"-">>) > 0

\* realDir.indexOf(name + '-') !== -1
HasProjectDir(p, name) == IndexOf(RealDir(p), name \o <<"-">>) # -1

\* one element of settingsGradlePaths
SettingsGradlePath(p, name) ==
    <<"include \":">> \o LibName(p, name) \o <<"\"\n">>
    \o (IF HasProjectDir(p, name)
        THEN <<"project(\":">> \o LibName(p, name)
             \o <<"\").projectDir = new File(\"">> \o p \o <<"\")\n">>
        ELSE <<>>)

SettingsGradlePaths(subProjects, name) ==
    [i \in 1..Len(subProjects) |-> SettingsGradlePath(subProjects[i], name)]

SettingsGradleText(subProjects, name) ==
    <<"// GENERATED FILE - DO NOT EDIT\n", "include \":\"\n">>
    \o Join(SettingsGradlePaths(subProjects, name))

(***************************************************************************)
(* checkAndCopy and the loop that calls it.                                *)
(***************************************************************************)
\* the file <root>/<p>/build.gradle
ReadSub(files, p) == IF p \in DOMAIN files THEN files[p] ELSE NoDir

\* fs.accessSync throws when the file is missing; shell.cp then copies
\* plugin-build.gradle, which fails (without throwing) when the source or the
\* target directory is missing.
CheckAndCopy(files, p, plugin) ==
    IF p \in DOMAIN files /\ files[p] = Absent /\ plugin # Absent
    THEN [files EXCEPT ![p] = plugin]
    ELSE files

RECURSIVE CopyLoop(_, _, _)
CopyLoop(files, subProjects, plugin) ==
    IF subProjects = <<>> THEN files
    ELSE LET p == Head(subProjects)
             next == IF p # <<"CordovaLib">> /\ p # <<"app">>
                     THEN CheckAndCopy(files, p, plugin)
                     ELSE files
         IN  CopyLoop(next, Tail(subProjects), plugin)

(***************************************************************************)
(* The dependency list: sub-projects (insertExclude), then system          *)
(* libraries (SYSTEM_LIBRARY_MAPPINGS).                                    *)
(***************************************************************************)
\* what insertExclude appends for a readable sub-project descriptor
InsertExclude(projectGradleFile) ==
    IF IndexOf(projectGradleFile, <<"CordovaLib">>) # -1
    THEN <<"{\n        exclude module:(\"CordovaLib\")\n    }\n">>
    ELSE <<"\n">>

\* subProjects.forEach(...): the text appended to depsList, until
\* fs.readFileSync throws for a missing descriptor
RECURSIVE SubProjectDeps(_, _, _)
SubProjectDeps(subProjects, name, files) ==
    IF subProjects = <<>> THEN [error |-> "none", message |-> <<>>, text |-> <<>>]
    ELSE LET p == Head(subProjects)
             line == <<"    implementation(project(path: \"">>
                     \o LibName(p, name) \o <<"\"))">>
             file == ReadSub(files, p)
         IN  IF file \in {Absent, NoDir}
             THEN [error |-> "ENOENT", message |-> p, text |-> line]
             ELSE LET rest == SubProjectDeps(Tail(subProjects), name, files)
                  IN  [rest EXCEPT !.text = line \o InsertExclude(file) \o @]

\* a test for one ':' only
HasOneColon(p) == \E i \in 1..Len(p) : p[i] = ":"

\* /:.*:/.exec(p): two ':' on one line (a raw value holds no line terminator)
HasTwoColons(p) ==
    \E i, j \in 1..Len(p) : i < j /\ p[i] = ":" /\ p[j] = ":"

SUPPORT_DIR == "extras/android/support/"
PLAY_SERVICES_DIR == "google/google_play_services/libproject/google-play-services_lib"

\* String.prototype.replace's expansion of a replacement string (GetSubstitution)
\* for a pattern with Len(captures) capture groups.
\* the lexeme of the grave accent (U+0060), written out because the character
\* opens a quotation in the module's own syntax
GRAVE == "<grave accent>"

RECURSIVE GetSubstitution(_, _, _, _, _)
\* the expansion of the pattern at the head of repl, and the pattern's length
SubstitutionHead(repl, matched, before, after, captures) ==
    LET m == Len(captures)
        c == repl[2]
        n == DigitValue(c)
        two == Len(repl) >= 3 /\ repl[3] \in Digits
        nn == IF two THEN 10 * n + DigitValue(repl[3]) ELSE 0
    IN  IF Head(repl) # "$" \/ Len(repl) = 1 THEN [text |-> <<Head(repl)>>, len |-> 1]
        ELSE IF c = "$" THEN [text |-> <<"$">>, len |-> 2]
        ELSE IF c = "&" THEN [text |-> matched, len |-> 2]
        ELSE IF c = GRAVE THEN [text |-> before, len |-> 2]
        ELSE IF c = "'" THEN [text |-> after, len |-> 2]
        ELSE IF c \in Digits /\ two /\ nn >= 1 /\ nn <= m
        THEN [text |-> captures[nn], len |-> 3]
        ELSE IF c \in Digits /\ n >= 1 /\ n <= m
        THEN [text |-> captures[n], len |-> 2]
        ELSE [text |-> <<"$">>, len |-> 1]

GetSubstitution(repl, matched, before, after, captures) ==
    IF repl = <<>> THEN <<>>
    ELSE LET h == SubstitutionHead(repl, matched, before, after, captures)
         IN  h.text \o GetSubstitution(SubSeq(repl, h.len + 1, Len(repl)),
                                       matched, before, after, captures)

\* SYSTEM_LIBRARY_MAPPINGS: rule 1 is
\*   [/^\/?extras\/android\/support\/(.*)$/, 'com.android.support:support-$1:+']
\* and rule 2 is
\*   [/^\/?google\/google_play_services\/libproject\/google-play-services_lib\/?$/,
\*    'com.google.android.gms:play-services:+']
SYSTEM_LIBRARY_MAPPINGS ==
    << [pattern |-> "support",
        template |-> <<"com.android.support:support-", "$", "1", ":", "+">>],
       [pattern |-> "play-services",
        template |-> <<"com.google.android.gms:play-services:+">>] >>

\* pair[0].exec(p): <<>> for null, else <<captures>>
MappingExec(pattern, p) ==
    LET q == IF p # <<>> /\ Head(p) = "/" THEN Tail(p) ELSE p
    IN  IF pattern = "support"
        THEN IF q # <<>> /\ Head(q) = SUPPORT_DIR THEN <<<<Tail(q)>>>> ELSE <<>>
        ELSE IF q = <<PLAY_SERVICES_DIR>> \/ q = <<PLAY_SERVICES_DIR, "/">>
             THEN <<<<>>>> ELSE <<>>

\* the loop over SYSTEM_LIBRARY_MAPPINGS from rule i on: <<mavenRef>>, or <<>>
\* when the loop ends with mavenRef undefined
RECURSIVE MapFrom(_, _)
MapFrom(i, p) ==
    IF i > Len(SYSTEM_LIBRARY_MAPPINGS) THEN <<>>
    ELSE LET pair == SYSTEM_LIBRARY_MAPPINGS[i]
             m == MappingExec(pair.pattern, p)
         IN  IF m # <<>>
             THEN <<GetSubstitution(pair.template, p, <<>>, <<>>, m[1])>>
             ELSE MapFrom(i + 1, p)

\* the body of propertiesObj.systemLibs.forEach: <<mavenRef>>, or <<>> for the
\* thrown CordovaError (an empty mavenRef is falsy and throws as well)
MavenRef(p) ==
    IF HasTwoColons(p) THEN <<p>>
    ELSE LET r == MapFrom(1, p)
         IN  IF r = <<>> \/ r[1] = <<>> THEN <<>> ELSE r

RECURSIVE SystemLibDeps(_)
SystemLibDeps(systemLibs) ==
    IF systemLibs = <<>> THEN [error |-> "none", message |-> <<>>, text |-> <<>>]
    ELSE LET p == Head(systemLibs)
             r == MavenRef(p)
         IN  IF r = <<>>
             THEN [error |-> "UnsupportedSystemLibrary",
                   message |-> <<"Unsupported system library (does not work with gradle): ">> \o p,
                   text |-> <<>>]
             ELSE LET rest == SystemLibDeps(Tail(systemLibs))
                  IN  [rest EXCEPT !.text = <<"    compile \"">> \o r[1] \o <<"\"\n">> \o @]

(***************************************************************************)
(* The splice into build.gradle.                                           *)
(***************************************************************************)
DEPS_START == "SUB-PROJECT DEPENDENCIES START"
DEPS_END == "// SUB-PROJECT DEPENDENCIES END"
EXT_START == "PLUGIN GRADLE EXTENSIONS START"
EXT_END == "// PLUGIN GRADLE EXTENSIONS END"

\* s.replace(/(start)[\s\S]*(end)/, repl): the match runs from the first start
\* that has an end after it to the last end; s is returned when there is none
ReplaceRegion(s, start, end, repl) ==
    LET i == IndexOf(s, <<start>>)
        j == LastIndexOf(s, <<end>>)
    IN  IF i = -1 \/ j < i THEN s
        ELSE Slice(s, 0, i)
             \o GetSubstitution(repl, Slice(s, i, j + 1), Slice(s, 0, i),
                                Substring(s, j + 1), <<<<start>>, <<end>>>>)
             \o Substring(s, j + 1)

RECURSIVE IncludeList(_)
IncludeList(gradleIncludes) ==
    IF gradleIncludes = <<>> THEN <<>>
    ELSE <<"apply from: \"">> \o Head(gradleIncludes) \o <<"\"\n">>
         \o IncludeList(Tail(gradleIncludes))

\* the two replace calls
Splice(text, depsList, includeList) ==
    LET deps == ReplaceRegion(text, DEPS_START, DEPS_END,
                              <<"$", "1", "\n">> \o depsList \o <<"    ", "$", "2">>)
    IN  ReplaceRegion(deps, EXT_START, EXT_END,
                      <<"$", "1", "\n">> \o includeList \o <<"$", "2">>)

(***************************************************************************)
(* prepBuildFiles.                                                         *)
(***************************************************************************)
\* a run that writes build.gradle whether or not something threw
WriteBuildGradleAnyway(error, text, depsList, includeList) ==
    Splice(text, depsList, includeList)

\* build.gradle after the run: fs.writeFileSync is the last statement, reached
\* only when nothing before it threw
WriteBuildGradle(error, text, depsList, includeList) ==
    IF error = "none" THEN Splice(text, depsList, includeList) ELSE text

\* settings.gradle after the run: written once the project name is known
WriteSettingsGradle(found, text, subProjects, name) ==
    IF found THEN SettingsGradleText(subProjects, name) ELSE text

\* depsList as the two forEach loops leave it, and the error that ended them
DepsList(propertiesObj, real, files) ==
    IF ~real.ok
    THEN [error |-> "PackageNameNotFound",
          message |-> <<"Could not find package name in AndroidManifest.xml">>,
          text |-> <<>>]
    ELSE LET subs == SubProjectDeps(propertiesObj.libs, real.name, files)
         IN  IF subs.error # "none" THEN subs
             ELSE LET libs == SystemLibDeps(propertiesObj.systemLibs)
                  IN  [libs EXCEPT !.text = subs.text \o @]

\* the run's locals, its outcome, and the files after it
RunOutcome(propertiesObj, real, files, deps, includeList) ==
    [error |-> deps.error,
     message |-> deps.message,
     propertiesObj |-> propertiesObj,
     name |-> real.name,
     depsList |-> deps.text,
     includeList |-> includeList,
     subProjectGradle |-> files,
     settingsGradle |-> WriteSettingsGradle(real.ok, settingsGradle,
                                            propertiesObj.libs, real.name),
     buildGradle |-> WriteBuildGradle(deps.error, buildGradle, deps.text, includeList)]

RunWith(propertiesObj, real, files) ==
    RunOutcome(propertiesObj, real, files, DepsList(propertiesObj, real, files),
               IncludeList(propertiesObj.gradleIncludes))

RunFrom(propertiesObj) ==
    RunWith(propertiesObj, ExtractRealProjectNameFromManifest(androidManifest),
            CopyLoop(subProjectGradle, propertiesObj.libs, pluginBuildGradle))

\* the run on the files as they are
PrepBuildFilesRun == RunFrom(ReadProjectProperties(projectProperties))

(***************************************************************************)
(* The signing properties files.                                           *)
(***************************************************************************)
MARKER == "YOUR CHANGES WILL BE ERASED!"

TEMPLATE ==
    <<"# This file is automatically generated.\n# Do not modify this file -- ",
      MARKER, "\n">>

BuildTypes == {"debug", "release"}

\* opts.packageInfo undefined
NoPackageInfo == <<"<undefined>">>

\* a test that takes the marker phrase at offset 0 as well
IsAutoGeneratedAtAnyOffset(file) == file # Absent /\ IndexOf(file, <<MARKER>>) >= 0

\* isAutoGenerated(file)
IsAutoGenerated(file) == file # Absent /\ IndexOf(file, <<MARKER>>) > 0

(***************************************************************************)
(* The state machine.                                                      *)
(***************************************************************************)
NoCall ==
    [op |-> "init", error |-> "none", message |-> <<>>, before |-> <<>>,
     propertiesObj |-> [libs |-> <<>>, gradleIncludes |-> <<>>, systemLibs |-> <<>>],
     name |-> <<>>, depsList |-> <<>>, includeList |-> <<>>,
     buildType |-> "", packageInfo |-> NoPackageInfo, deleted |-> {}]

\* GradleBuilder.prototype.readProjectProperties, called on its own
ReadProjectPropertiesCall ==
    /\ last' = [NoCall EXCEPT !.op = "readProjectProperties",
                              !.propertiesObj = ReadProjectProperties(projectProperties)]
    /\ UNCHANGED <<projectProperties, androidManifest, buildGradle, settingsGradle,
                   subProjectGradle, pluginBuildGradle, signingProperties, original,
                   runs>>

\* GradleBuilder.prototype.prepBuildFiles
PrepBuildFiles ==
    /\ runs < MaxRuns
    /\ LET r == PrepBuildFilesRun
       IN  /\ subProjectGradle' = r.subProjectGradle
           /\ settingsGradle' = r.settingsGradle
           /\ buildGradle' = r.buildGradle
           /\ last' = [NoCall EXCEPT !.op = "prepBuildFiles",
                                     !.error = r.error,
                                     !.message = r.message,
                                     !.before = buildGradle,
                                     !.propertiesObj = r.propertiesObj,
                                     !.name = r.name,
                                     !.depsList = r.depsList,
                                     !.includeList = r.includeList]
    /\ runs' = runs + 1
    /\ UNCHANGED <<projectProperties, androidManifest, pluginBuildGradle,
                   signingProperties, original>>

\* the last step of prepEnv's promise chain, on the file of opts.buildType
SigningStep(file, packageInfo) ==
    IF packageInfo # NoPackageInfo THEN TEMPLATE \o packageInfo
    ELSE IF IsAutoGenerated(file) THEN Absent
    ELSE file

\* GradleBuilder.prototype.prepEnv(opts).  toolsOk: check_reqs.check_gradle and
\* runGradleWrapper both resolve; when one rejects, or prepBuildFiles throws,
\* the rest of the chain is skipped.
PrepEnv(buildType, packageInfo, toolsOk) ==
    /\ runs < MaxRuns
    /\ LET r == PrepBuildFilesRun
           done == toolsOk /\ r.error = "none"
           file == signingProperties[buildType]
           after == IF done THEN SigningStep(file, packageInfo) ELSE file
       IN  /\ subProjectGradle' = IF toolsOk THEN r.subProjectGradle ELSE subProjectGradle
           /\ settingsGradle' = IF toolsOk THEN r.settingsGradle ELSE settingsGradle
           /\ buildGradle' = IF toolsOk THEN r.buildGradle ELSE buildGradle
           /\ signingProperties' = [signingProperties EXCEPT ![buildType] = after]
           /\ last' = [NoCall EXCEPT !.op = "prepEnv",
                                     !.error = IF toolsOk THEN r.error ELSE "rejected",
                                     !.message = IF toolsOk THEN r.message ELSE <<>>,
                                     !.before = buildGradle,
                                     !.buildType = buildType,
                                     !.packageInfo = packageInfo,
                                     !.deleted = IF file # Absent /\ after = Absent
                                                 THEN {<<buildType, file>>} ELSE {}]
           /\ runs' = IF toolsOk THEN runs + 1 ELSE runs
    /\ UNCHANGED <<projectProperties, androidManifest, pluginBuildGradle, original>>

\* GradleBuilder.prototype.clean(opts).  spawnOk: the gradle clean resolves.
Clean(spawnOk) ==
    /\ LET after == [config \in BuildTypes |->
                       IF spawnOk /\ IsAutoGenerated(signingProperties[config])
                       THEN Absent ELSE signingProperties[config]]
       IN  /\ signingProperties' = after
           /\ last' = [NoCall EXCEPT !.op = "clean",
                                     !.error = IF spawnOk THEN "none" ELSE "rejected",
                                     !.deleted =
                                         {<<config, signingProperties[config]>> :
                                            config \in {c \in BuildTypes :
                                                          /\ signingProperties[c] # Absent
                                                          /\ after[c] = Absent}}]
    /\ UNCHANGED <<projectProperties, androidManifest, buildGradle, settingsGradle,
                   subProjectGradle, pluginBuildGradle, original, runs>>

\* the project owner replaces project.properties
EditProjectProperties(text) ==
    /\ text # projectProperties
    /\ projectProperties' = text
    /\ last' = [NoCall EXCEPT !.op = "edit"]
    /\ original' = buildGradle
    /\ runs' = 0
    /\ UNCHANGED <<androidManifest, buildGradle, settingsGradle, subProjectGradle,
                   pluginBuildGradle, signingProperties>>

\* the project owner writes, or removes, a signing properties file
EditSigningProperties(buildType, file) ==
    /\ signingProperties' = [signingProperties EXCEPT ![buildType] = file]
    /\ last' = [NoCall EXCEPT !.op = "edit"]
    /\ original' = buildGradle
    /\ runs' = 0
    /\ UNCHANGED <<projectProperties, androidManifest, buildGradle, settingsGradle,
                   subProjectGradle, pluginBuildGradle>>

(***************************************************************************)
(* Inputs.                                                                 *)
(***************************************************************************)
BoundedSeq(S, n) == UNION {[1..k -> S] : k \in 0..n}

\* one line of project.properties
Line(key, value) == <<key, "1", "=">> \o value

\* a text of the given lines, each ended by a line feed
RECURSIVE Text(_)
Text(lines) ==
    IF lines = <<>> THEN <<>> ELSE Head(lines) \o <<"\n">> \o Text(Tail(lines))

\* AndroidManifest.xml with the given package attribute
Manifest(package) ==
    <<"<manifest", " ", "package", "=", "\"">> \o package \o <<"\"", ">">>

GoodManifest == Manifest(<<"c", ".", "h">>)
DotlessManifest == Manifest(<<"h">>)
NoPackageManifest == <<"<manifest", " ", "versionCode", "=", "\"", "1", "\"", ">">>

\* hand-written text of build.gradle: the i-th piece
HandWritten == <<"t0", "t1", "t2", "t3", "t4", "t5", "t6", "t7">>

\* a build.gradle with the given marker comments, hand-written text around each
RECURSIVE Around(_, _)
Around(markers, i) ==
    IF markers = <<>> THEN <<HandWritten[i]>>
    ELSE <<HandWritten[i], Head(markers)>> \o Around(Tail(markers), i + 1)

Descriptor(markers) == Around(markers, 1)

TemplateBuildGradle == Descriptor(<<DEPS_START, DEPS_END, EXT_START, EXT_END>>)

Descriptors ==
    {Descriptor(m) :
       m \in BoundedSeq({DEPS_START, DEPS_END, EXT_START, EXT_END}, MaxMarkers)}

HostLib == <<"h", "-", "a">>
PlainLib == <<"b">>
GradleCoordinate == <<"a", ":", "b", ":", "c">>

\* properties of the whole-program specification
MainProperties ==
    { Text(<<>>),
      Text(<<Line(LIBS_KEY, HostLib), Line(SYSTEM_LIBS_KEY, GradleCoordinate),
             Line(INCLUDES_KEY, <<"e">>)>>),
      Text(<<Line(LIBS_KEY, HostLib), Line(SYSTEM_LIBS_KEY, <<"x">>)>>),
      Text(<<Line(LIBS_KEY, PlainLib)>>),
      Text(<<Line(LIBS_KEY, <<"CordovaLib">>)>>),
      Text(<<Line(SYSTEM_LIBS_KEY, <<SUPPORT_DIR, "v", "4">>),
             Line(INCLUDES_KEY, <<"e">>)>>) }

\* what a project owner may have put where a signing properties file goes
UserSigningFiles ==
    { Absent, <<"k">>, <<MARKER, "k">>, <<"k", MARKER>>, <<MARKER, "k", MARKER>> }

\* opts.packageInfo.toProperties()
Payloads == { <<"k">> }

\* lines of project.properties for readProjectProperties
ParseValues ==
    { <<"a">>, <<"b">>, <<"2">>, <<"1", "0">>, <<"0", "1">> }

ParseLines ==
    {Line(LIBS_KEY, v) : v \in ParseValues}
    \cup {Line(k, v) : k \in {INCLUDES_KEY, SYSTEM_LIBS_KEY}, v \in {<<"a">>, <<"2">>}}
    \cup { <<" ", LIBS_KEY, "1", "2", "=", "a", " ">>, <<LIBS_KEY, "=", "a">>,
           <<"#", LIBS_KEY, "1", "=", "b">> }

ParseTexts == {Text(l) : l \in BoundedSeq(ParseLines, MaxLines)}

\* sub-project paths
Paths == BoundedSeq({"h", "a", "-", "/", "\\"}, MaxPathLen) \ {<<>>}

\* raw system-library values
RawValues == BoundedSeq({":", "/", "a", SUPPORT_DIR, PLAY_SERVICES_DIR}, MaxRawLen)

\* values whose text is special to the splice
SpliceSystemLibs ==
    { GradleCoordinate, <<"a", ":", "b", ":", "$", "$">>, <<"a", ":", "b", ":", "$", "'">>,
      <<"a", ":", "b", ":", "$", GRAVE>> }

SpliceIncludes ==
    { <<"e">>, <<"$", "&">>, <<"e", " ", DEPS_END>>, <<"e", "$", "0", "2">> }

(***************************************************************************)
(* Specifications.                                                         *)
(***************************************************************************)
\* what every specification starts from
InitCommon ==
    /\ original = buildGradle
    /\ pluginBuildGradle = <<"p">>
    /\ signingProperties = [config \in BuildTypes |-> Absent]
    /\ last = NoCall
    /\ runs = 0

\* prepBuildFiles between the owner's edits of project.properties: runs that
\* succeed, and runs that fail in each of the three ways.
Init ==
    /\ projectProperties \in MainProperties
    /\ androidManifest \in {GoodManifest, DotlessManifest, NoPackageManifest}
    /\ buildGradle = TemplateBuildGradle
    /\ settingsGradle = Absent
    /\ subProjectGradle = (HostLib :> Absent) @@ (PlainLib :> NoDir)
    /\ InitCommon

Next ==
    \/ PrepBuildFiles
    \/ \E text \in MainProperties : EditProjectProperties(text)

Spec == Init /\ [][Next]_vars

\* prepEnv and clean between the owner's edits of the signing properties files.
InitSigning ==
    /\ projectProperties \in
          { Text(<<Line(LIBS_KEY, HostLib), Line(SYSTEM_LIBS_KEY, GradleCoordinate)>>),
            Text(<<Line(LIBS_KEY, HostLib), Line(SYSTEM_LIBS_KEY, <<"x">>)>>) }
    /\ androidManifest = GoodManifest
    /\ buildGradle = TemplateBuildGradle
    /\ settingsGradle = Absent
    /\ subProjectGradle = (HostLib :> Absent) @@ (PlainLib :> NoDir)
    /\ InitCommon

NextSigning ==
    \/ \E buildType \in BuildTypes, packageInfo \in Payloads \cup {NoPackageInfo},
          toolsOk \in BOOLEAN : PrepEnv(buildType, packageInfo, toolsOk)
    \/ \E spawnOk \in BOOLEAN : Clean(spawnOk)
    \/ \E buildType \in BuildTypes, file \in UserSigningFiles :
          EditSigningProperties(buildType, file)

SpecSigning == InitSigning /\ [][NextSigning]_vars

\* readProjectProperties on generated properties texts.
InitParse ==
    /\ projectProperties \in ParseTexts
    /\ androidManifest = GoodManifest
    /\ buildGradle = TemplateBuildGradle
    /\ settingsGradle = Absent
    /\ subProjectGradle = (HostLib :> Absent) @@ (PlainLib :> NoDir)
    /\ InitCommon

SpecParse == InitParse /\ [][ReadProjectPropertiesCall]_vars

\* prepBuildFiles on generated build descriptors and on generated text that is
\* special to the splice.
InitInject ==
    /\ \E lib \in {HostLib, PlainLib}, sys \in SpliceSystemLibs, inc \in SpliceIncludes :
          projectProperties = Text(<<Line(LIBS_KEY, lib), Line(SYSTEM_LIBS_KEY, sys),
                                     Line(INCLUDES_KEY, inc)>>)
    /\ androidManifest = GoodManifest
    /\ buildGradle \in Descriptors
    /\ settingsGradle = Absent
    /\ subProjectGradle = (HostLib :> <<"CordovaLib">>) @@ (PlainLib :> Absent)
    /\ InitCommon

SpecInject == InitInject /\ [][PrepBuildFiles]_vars

\* prepBuildFiles on generated sub-project paths.
InitModule ==
    /\ \E p \in Paths :
          /\ projectProperties = Text(<<Line(LIBS_KEY, p), Line(LIBS_KEY, HostLib)>>)
          /\ subProjectGradle = (p :> <<"x">>) @@ (HostLib :> <<"CordovaLib">>)
    /\ androidManifest = GoodManifest
    /\ buildGradle = TemplateBuildGradle
    /\ settingsGradle = <<"hand-written">>
    /\ InitCommon

SpecModule == InitModule /\ [][PrepBuildFiles]_vars

\* prepBuildFiles on generated system-library values.
InitResolve ==
    /\ \E raw \in RawValues, more \in {<<>>, <<GradleCoordinate>>, <<<<"x">>>>} :
          projectProperties =
              Text(<<Line(SYSTEM_LIBS_KEY, raw)>>
                   \o [i \in 1..Len(more) |-> Line(SYSTEM_LIBS_KEY, more[i])])
    /\ androidManifest = GoodManifest
    /\ buildGradle = TemplateBuildGradle
    /\ settingsGradle = Absent
    /\ subProjectGradle = (HostLib :> Absent) @@ (PlainLib :> NoDir)
    /\ InitCommon

SpecResolve == InitResolve /\ [][PrepBuildFiles]_vars

(***************************************************************************)
(* Properties.                                                             *)
(***************************************************************************)
\* the last call was prepBuildFiles / it returned without throwing
Ran == last.op = "prepBuildFiles"
Succeeded == Ran /\ last.error = "none"

Occurs(d, lexeme) == \E i \in 1..Len(d) : d[i] = lexeme
Count(d, lexeme) == Cardinality({i \in 1..Len(d) : d[i] = lexeme})
StartsWith(d, prefix) == OccursAt(d, prefix, 0)
EndsWith(d, suffix) == OccursAt(d, suffix, Len(d) - Len(suffix))

\* offsets of the dependency region (first START, last END) and of the
\* include-extensions region of a descriptor
DepsOpen(d) == IndexOf(d, <<DEPS_START>>)
DepsClose(d) == LastIndexOf(d, <<DEPS_END>>)
ExtOpen(d) == IndexOf(d, <<EXT_START>>)
ExtClose(d) == LastIndexOf(d, <<EXT_END>>)

HasAllMarkers(d) ==
    \A m \in {DEPS_START, DEPS_END, EXT_START, EXT_END} : Occurs(d, m)

HasBothPairs(d) ==
    /\ HasAllMarkers(d)
    /\ DepsOpen(d) < DepsClose(d)
    /\ ExtOpen(d) < ExtClose(d)

DepsRegionFirst(d) == DepsClose(d) < ExtOpen(d)
RegionsApart(d) == DepsRegionFirst(d) \/ ExtClose(d) < DepsOpen(d)

\* new is old with nothing but the bodies of its two regions replaced: the text
\* up to the first region's START, the text from its END to the second
\* region's START, and the text from the second region's END are all kept
OutsideKept(old, new) ==
    LET open1 == IF DepsRegionFirst(old) THEN DepsOpen(old) ELSE ExtOpen(old)
        close1 == IF DepsRegionFirst(old) THEN DepsClose(old) ELSE ExtClose(old)
        open2 == IF DepsRegionFirst(old) THEN ExtOpen(old) ELSE DepsOpen(old)
        close2 == IF DepsRegionFirst(old) THEN ExtClose(old) ELSE DepsClose(old)
        head == Slice(old, 0, open1 + 1)
        middle == Slice(old, close1, open2 + 1)
        tail == Substring(old, close2)
    IN  /\ StartsWith(new, head)
        /\ EndsWith(new, tail)
        /\ \E k \in Len(head)..(Len(new) - Len(tail) - Len(middle)) :
              OccursAt(new, middle, k)

\* C1: a successful run on a descriptor that holds both marker pairs leaves the
\* text outside the two marker regions as it was, whatever the generated text is
\* and however often a marker occurs.
C1_OutsideMarkersUnchanged ==
    (Succeeded /\ HasBothPairs(last.before) /\ RegionsApart(last.before))
        => OutsideKept(last.before, buildGradle)

\* C2: a second run on unchanged inputs leaves build.gradle, marker regions
\* included, as the first run left it.  (The other half of the claim, that the
\* text outside the marker regions is still that of the descriptor before the
\* first run, is C1 over two runs.)
C2_Idempotent == (runs >= 2 /\ Succeeded) => buildGradle = last.before

\* C3: a run on a descriptor that lacks a marker of either pair fails: no run
\* returns normally unless all four markers are there.
C3_MissingMarkersFail == Succeeded => HasAllMarkers(last.before)

\* each marker once, each START before its END, the two regions apart
WellFormed(d) ==
    /\ \A m \in {DEPS_START, DEPS_END, EXT_START, EXT_END} : Count(d, m) = 1
    /\ HasBothPairs(d)
    /\ RegionsApart(d)

\* the text strictly between the dependency markers
DependencyBlock(d) == Slice(d, DepsOpen(d) + 1, DepsClose(d))

\* the declaration of sub-project p: its module name, and the exclusion iff its
\* own descriptor names CordovaLib
ModuleDeclaration(p, name, files) ==
    <<"    implementation(project(path: \"">> \o LibName(p, name) \o <<"\"))">>
    \o (IF Occurs(files[p], "CordovaLib")
        THEN <<"{\n        exclude module:(\"CordovaLib\")\n    }\n">>
        ELSE <<"\n">>)

CoordinateDeclaration(p) == <<"    compile \"">> \o MavenRef(p)[1] \o <<"\"\n">>

ExpectedDependencies(propertiesObj, name, files) ==
    Join([i \in 1..Len(propertiesObj.libs) |->
            ModuleDeclaration(propertiesObj.libs[i], name, files)])
    \o Join([i \in 1..Len(propertiesObj.systemLibs) |->
               CoordinateDeclaration(propertiesObj.systemLibs[i])])

\* C8: after a successful run the dependency block holds, verbatim, one module
\* declaration per sub-project and then one coordinate declaration per system
\* library, in order (behind the line feed and before the indentation that
\* frame the block).
C8_DependencyBlockVerbatim ==
    (Succeeded /\ WellFormed(last.before))
        => DependencyBlock(buildGradle) =
              <<"\n">> \o ExpectedDependencies(last.propertiesObj, last.name,
                                              subProjectGradle)
              \o <<"    ">>

\* C5: readProjectProperties returns, for each key family, the distinct matched
\* values in the order of their first occurrence.
C5_FirstSeenOrder ==
    last.op = "readProjectProperties"
        => /\ last.propertiesObj.libs = FirstSeen(Matches(projectProperties, LIBS_KEY))
           /\ last.propertiesObj.gradleIncludes =
                 FirstSeen(Matches(projectProperties, INCLUDES_KEY))
           /\ last.propertiesObj.systemLibs =
                 FirstSeen(Matches(projectProperties, SYSTEM_LIBS_KEY))

\* the module names settings.gradle declares, in order
RECURSIVE DeclaredModules(_)
DeclaredModules(settings) ==
    LET k == IndexOf(settings, <<"include \":">>)
        rest == Substring(settings, k + 1)
        end == IndexOf(rest, <<"\"\n">>)
    IN  IF k = -1 THEN <<>>
        ELSE <<Slice(rest, 0, end)>> \o DeclaredModules(Substring(rest, end + 1))

\* canonicalPath with the host's name-prefix stripped when it starts with it
PrefixStripped(p, name) ==
    IF StartsWith(RealDir(p), name \o <<"-">>)
    THEN Substring(RealDir(p), Len(name) + 1)
    ELSE RealDir(p)

\* C7: the module name of every sub-project is its canonical path without the
\* host's name-prefix; the host name elsewhere in the path strips nothing.
C7_PrefixOnly ==
    (Ran /\ last.error # "PackageNameNotFound")
        => DeclaredModules(settingsGradle) =
              [i \in 1..Len(last.propertiesObj.libs) |->
                 PrefixStripped(last.propertiesObj.libs[i], last.name)]

\* the declarations of sub-project p in settings.gradle: the module, and a
\* path override iff the module name differs from the canonical path
SettingsDeclaration(p, name) ==
    LET moduleName == LibName(p, name)
        canonicalPath == [i \in 1..Len(p) |-> IF p[i] = "/" \/ p[i] = "\\" THEN ":" ELSE p[i]]
    IN  <<"include \":">> \o moduleName \o <<"\"\n">>
        \o (IF moduleName # canonicalPath
            THEN <<"project(\":">> \o moduleName \o <<"\").projectDir = new File(\"">>
                 \o p \o <<"\")\n">>
            ELSE <<>>)

\* C9: whatever settings.gradle held, a run that found the package name leaves
\* it as the header, the root module and the declarations of the sub-projects
\* in order.
C9_SettingsManifest ==
    (Ran /\ last.error # "PackageNameNotFound")
        => settingsGradle =
              <<"// GENERATED FILE - DO NOT EDIT\n", "include \":\"\n">>
              \o Join([i \in 1..Len(last.propertiesObj.libs) |->
                         SettingsDeclaration(last.propertiesObj.libs[i], last.name)])

\* a run overwrote hand-written content with two modules, one with an override
C9_Witness ==
    /\ Ran
    /\ runs = 1
    /\ Len(last.propertiesObj.libs) = 2
    /\ Count(settingsGradle, "project(\":") = 1
    /\ ~StartsWith(RealDir(last.propertiesObj.libs[1]), last.name \o <<"-">>)

\* the policy for one raw value: <<coordinate>>, or <<>> when it is unsupported
PolicyCoordinate(raw) ==
    LET path == IF raw # <<>> /\ raw[1] = "/" THEN Tail(raw) ELSE raw
    IN  IF Count(raw, ":") >= 2 THEN <<raw>>
        ELSE IF path # <<>> /\ path[1] = SUPPORT_DIR
        THEN <<<<"com.android.support:support-">> \o Tail(path) \o <<":", "+">>>>
        ELSE IF path \in {<<PLAY_SERVICES_DIR>>, <<PLAY_SERVICES_DIR, "/">>}
        THEN <<<<"com.google.android.gms:play-services:+">>>>
        ELSE <<>>

\* the declarations of the first n system libraries
PolicyDeclarations(systemLibs, n) ==
    Join([i \in 1..n |-> <<"    compile \"">> \o PolicyCoordinate(systemLibs[i])[1]
                         \o <<"\"\n">>])

\* C6: every system library is resolved by the three-step policy; the first
\* value no step resolves fails the run with an error that names it, and
\* build.gradle gets no dependency line.
C6_ResolutionPolicy ==
    Ran =>
        LET systemLibs == last.propertiesObj.systemLibs
            bad == {i \in 1..Len(systemLibs) : PolicyCoordinate(systemLibs[i]) = <<>>}
        IN  IF bad = {}
            THEN /\ last.error = "none"
                 /\ DependencyBlock(buildGradle) =
                       <<"\n">> \o PolicyDeclarations(systemLibs, Len(systemLibs))
                       \o <<"    ">>
            ELSE LET first == CHOOSE i \in bad : \A j \in bad : i <= j
                 IN  /\ last.error = "UnsupportedSystemLibrary"
                     /\ EndsWith(last.message, systemLibs[first])
                     /\ Len(last.message) = Len(systemLibs[first]) + 1
                     /\ last.depsList = PolicyDeclarations(systemLibs, first - 1)
                     /\ buildGradle = last.before

\* a support library was mapped, and the value after it failed the run
C6_Witness ==
    /\ Ran
    /\ last.error = "UnsupportedSystemLibrary"
    /\ Len(last.propertiesObj.systemLibs) = 2
    /\ StartsWith(last.propertiesObj.systemLibs[1], <<SUPPORT_DIR>>)
    /\ Len(last.depsList) > 0

\* C4: a run that fails leaves build.gradle as it was before the run.
C4_FailureLeavesDescriptor ==
    (Ran /\ last.error # "none") => buildGradle = last.before

\* a run failed on a system library after it had written settings.gradle
C4_Witness ==
    /\ Ran
    /\ last.error = "UnsupportedSystemLibrary"
    /\ settingsGradle # Absent
    /\ Len(last.depsList) > 0

\* the marker phrase occurs in the file at an offset other than 0
MarkerAtNonZeroOffset(file) ==
    file # Absent /\ \E k \in 1..Len(file) : OccursAt(file, <<MARKER>>, k)

\* the step is a prepEnv without a credentials payload that ran to its end on
\* the file of build type config, or a clean that ran to its end
ReachesFile(call, config) ==
    /\ call.error = "none"
    /\ \/ call.op = "clean"
       \/ call.op = "prepEnv" /\ call.packageInfo = NoPackageInfo
                              /\ call.buildType = config

\* C10: prepEnv and clean delete a signing properties file only if it holds the
\* marker phrase at a non-zero offset, and they do delete a file that prepEnv
\* wrote for a credentials payload.
C10_DeleteOnlyAutoGenerated ==
    [][\A config \in BuildTypes :
          /\ (/\ last'.op \in {"prepEnv", "clean"}
              /\ signingProperties[config] # Absent
              /\ signingProperties'[config] = Absent)
                => MarkerAtNonZeroOffset(signingProperties[config])
          /\ (/\ ReachesFile(last', config)
              /\ StartsWith(signingProperties[config], TEMPLATE))
                => signingProperties'[config] = Absent]_vars

\* clean deleted a file that prepEnv had written, and left a hand-written file
\* that starts with the marker phrase
C10_Witness ==
    /\ last.op = "clean"
    /\ \E d \in last.deleted : StartsWith(d[2], TEMPLATE)
    /\ \E config \in BuildTypes : StartsWith(signingProperties[config], <<MARKER>>)

=============================================================================
